---- MODULE Spec2Model ----
(***************************************************************************)
(* A model of the ysh command-line front end: the tokenizers of            *)
(* src/token.rs and src/parse.rs, the environment-prefix iterator of       *)
(* src/env.rs, the command assembly of src/ast, the read loop of           *)
(* src/main.rs (State::run), hostname() of src/st.rs and the TrieMap of    *)
(* trie/src/map.rs.                                                        *)
(*                                                                         *)
(* A text window (&str) is a sequence of one-character strings.  Only      *)
(* ASCII characters are used, so byte offsets and character counts agree.  *)
(* A nom IResult is a record: ok says whether it is Ok; for Ok, rem is the *)
(* remaining text and tok the token; for Err, err is the variant of        *)
(* nom::Err ("Error" or "Incomplete").                                     *)
(***************************************************************************)
EXTENDS Naturals, Sequences, FiniteSets, TLC

VARIABLES
    text,       \* the text window or input line handed to a tokenizer or parser
    shape,      \* how that text was put together
    op,         \* the function that was called on the text, "none" before
    res,        \* what it returned
    env_iter,   \* the EnvIter the caller holds
    args_iter,  \* the ArgsIter the caller holds
    run,        \* State::run: its line buffer, the character it read, how it left
    host,       \* hostname(): its buffer, the last gethostname result, its outcome
    trie        \* a TrieMap, the Iter over it and what the Iter has yielded

vars == <<text, shape, op, res, env_iter, args_iter, run, host, trie>>

\* the values of run, host and trie while no session, no hostname call and no
\* map exist
NoRun == [line |-> <<>>, c |-> 0, at |-> "none", parsed |-> "none"]

NoHost == [name |-> 0, len |-> 0, cap |-> 0, res |-> "none", at |-> "none"]

NoTrie ==
    [root |-> [nodes |-> {<<>>}, values |-> {}], n |-> 0,
     key |-> <<>>, stack |-> <<>>, out |-> <<>>, at |-> "none"]

\* ------------------------------------------------------------ characters

DQ == "\""
SQ == "'"
BS == "\\"
SP == " "
TAB == "\t"
DOLLAR == "$"
EQ == "="

\* char::is_whitespace, on the characters of the model
is_whitespace(c) == c \in {SP, TAB}

\* ------------------------------------------------------------ str helpers

\* &s[n ..]
Drop(s, n) == SubSeq(s, n + 1, Len(s))

\* &s[.. n]
Take(s, n) == SubSeq(s, 1, n)

RECURSIVE str_trim_start(_)
str_trim_start(s) ==
    IF s # <<>> /\ is_whitespace(Head(s)) THEN str_trim_start(Tail(s)) ELSE s

RECURSIVE str_trim_end(_)
str_trim_end(s) ==
    IF s # <<>> /\ is_whitespace(s[Len(s)])
    THEN str_trim_end(Take(s, Len(s) - 1))
    ELSE s

str_trim(s) == str_trim_end(str_trim_start(s))

\* the index of the first character of s that satisfies is_whitespace, 0 if none
FindWhitespace(s) ==
    IF \E i \in 1 .. Len(s) : is_whitespace(s[i])
    THEN CHOOSE i \in 1 .. Len(s) :
            is_whitespace(s[i]) /\ \A j \in 1 .. i - 1 : ~is_whitespace(s[j])
    ELSE 0

\* str::find of a one-character pattern: the index of its first occurrence, 0 if none
FindChar(s, c) ==
    IF \E i \in 1 .. Len(s) : s[i] = c
    THEN CHOOSE i \in 1 .. Len(s) : s[i] = c /\ \A j \in 1 .. i - 1 : s[j] # c
    ELSE 0

\* ------------------------------------------------------------ nom results

Ok(rem, tok) == [ok |-> TRUE, err |-> "", rem |-> rem, tok |-> tok]

Failed(kind) == [ok |-> FALSE, err |-> kind, rem |-> <<>>, tok |-> <<>>]

\* tag!(text, c) for a one-character tag
tag(t, c) ==
    IF t = <<>> THEN Failed("Incomplete")
    ELSE IF Head(t) = c THEN Ok(Tail(t), <<c>>)
    ELSE Failed("Error")

\* take_till1!(text, char::is_whitespace)
take_till1(t) ==
    LET i == FindWhitespace(t) IN
    IF i = 0 THEN Failed("Incomplete")
    ELSE IF i = 1 THEN Failed("Error")
    ELSE Ok(Drop(t, i - 1), Take(t, i - 1))

\* take_until!(text, c): the text before the first c, which may be empty
take_until(t, c) ==
    LET i == FindChar(t, c) IN
    IF i = 0 THEN Failed("Incomplete")
    ELSE Ok(Drop(t, i - 1), Take(t, i - 1))

\* take_until1!(text, c): the non-empty text before the first c
take_until1(t, c) ==
    LET i == FindChar(t, c) IN
    IF i = 0 THEN Failed("Incomplete")
    ELSE IF i = 1 THEN Failed("Error")
    ELSE Ok(Drop(t, i - 1), Take(t, i - 1))

\* ------------------------------------------------------------ token.rs

\* word without the end-of-window case of its or_else
word_no_eof(t) == take_till1(t)

\* token::word
word(t) ==
    LET r == take_till1(t) IN
    IF ~r.ok /\ r.err = "Incomplete" /\ t # <<>> THEN Ok(<<>>, t) ELSE r

\* squote that takes a non-empty body only
squote_nonempty(t) ==
    LET open == tag(t, SQ) IN
    IF ~open.ok THEN open
    ELSE LET body == take_until1(open.rem, SQ) IN
         IF ~body.ok THEN body
         ELSE LET close == tag(body.rem, SQ) IN
              IF ~close.ok THEN close ELSE Ok(close.rem, body.tok)

\* token::squote
squote(t) ==
    LET open == tag(t, SQ) IN
    IF ~open.ok THEN open
    ELSE LET body == take_until(open.rem, SQ) IN
         IF ~body.ok THEN body
         ELSE LET close == tag(body.rem, SQ) IN
              IF ~close.ok THEN close ELSE Ok(close.rem, body.tok)

RECURSIVE dquote(_), dquote_scan(_, _), shell_meta(_), shell_meta_scan(_, _, _)

\* the dquote loop with the dollar sign taken as a plain character
dquote_scan_no_meta(t, p) ==
    IF p > Len(t) THEN Failed("Incomplete")
    ELSE IF t[p] = DQ THEN Ok(Drop(t, p), Take(t, p - 1))
    ELSE IF t[p] = BS THEN dquote_scan(t, p + 2)
    ELSE dquote_scan(t, p + 1)

\* the dquote loop with the backslash taken as a plain character
dquote_scan_no_escape(t, p) ==
    IF p > Len(t) THEN Failed("Incomplete")
    ELSE IF t[p] = DQ THEN Ok(Drop(t, p), Take(t, p - 1))
    ELSE IF t[p] = DOLLAR
         THEN LET m == shell_meta(Drop(t, p - 1)) IN
              IF ~m.ok THEN m ELSE dquote_scan(t, p + 1 + Len(m.tok))
    ELSE dquote_scan(t, p + 1)

\* token::dquote: the loop over the characters after the opening quote; p is
\* the position of the character the iterator yields next
dquote_scan(t, p) ==
    IF p > Len(t) THEN Failed("Incomplete")
    ELSE IF t[p] = DQ THEN Ok(Drop(t, p), Take(t, p - 1))
    ELSE IF t[p] = BS THEN dquote_scan(t, p + 2)
    ELSE IF t[p] = DOLLAR
         THEN LET m == shell_meta(Drop(t, p - 1)) IN
              IF ~m.ok THEN m ELSE dquote_scan(t, p + 1 + Len(m.tok))
    ELSE dquote_scan(t, p + 1)

\* s with each backslash pair replaced by its second character
RECURSIVE Unescape(_)
Unescape(s) ==
    IF s = <<>> THEN <<>>
    ELSE IF s[1] = BS /\ Len(s) >= 2 THEN <<s[2]>> \o Unescape(Drop(s, 2))
    ELSE <<s[1]>> \o Unescape(Tail(s))

\* the token of a dquote result, unescaped
Unescaped(r) == IF r.ok THEN Ok(r.rem, Unescape(r.tok)) ELSE r

\* dquote with a backslash processor: the token has its escapes resolved
dquote_unescaped(t) ==
    IF str_trim(t) = <<>> THEN Failed("Incomplete")
    ELSE LET open == tag(t, DQ) IN
         IF ~open.ok THEN open ELSE Unescaped(dquote_scan(open.rem, 1))

\* dquote that skips the whitespace before the opening quote
dquote_trim_start(t) ==
    IF str_trim(t) = <<>> THEN Failed("Incomplete")
    ELSE LET open == tag(str_trim_start(t), DQ) IN
         IF ~open.ok THEN open ELSE dquote_scan(open.rem, 1)

\* token::dquote
dquote(t) ==
    IF str_trim(t) = <<>> THEN Failed("Incomplete")
    ELSE LET open == tag(t, DQ) IN
         IF ~open.ok THEN open ELSE dquote_scan(open.rem, 1)

\* the shell_meta loop that ends the token before the closer
shell_meta_scan_open_token(t, rem, close) ==
    IF str_trim(rem) = <<>> THEN Failed("Incomplete")
    ELSE LET d == dquote(str_trim_start(rem))
             s == squote(str_trim_start(rem))
             m == shell_meta(str_trim_start(rem))
         IN  IF d.ok THEN shell_meta_scan(t, d.rem, close)
             ELSE IF s.ok THEN shell_meta_scan(t, s.rem, close)
             ELSE IF m.ok THEN shell_meta_scan(t, m.rem, close)
             ELSE IF rem = <<>> THEN Failed("Incomplete")
             ELSE IF Head(rem) = close
                  THEN LET len == Len(t) - Len(rem) IN
                       Ok(Drop(t, len), Take(t, len))
             ELSE shell_meta_scan(t, Tail(rem), close)

\* the shell_meta loop without the jump over double-quoted strings
shell_meta_scan_no_dquote(t, rem, close) ==
    IF str_trim(rem) = <<>> THEN Failed("Incomplete")
    ELSE LET s == squote(str_trim_start(rem))
             m == shell_meta(str_trim_start(rem))
         IN  IF s.ok THEN shell_meta_scan(t, s.rem, close)
             ELSE IF m.ok THEN shell_meta_scan(t, m.rem, close)
             ELSE IF rem = <<>> THEN Failed("Incomplete")
             ELSE IF Head(rem) = close
                  THEN LET len == Len(t) - Len(rem) IN
                       Ok(Drop(t, len + 1), Take(t, len + 1))
             ELSE shell_meta_scan(t, Tail(rem), close)

\* token::shell_meta: the 'outer loop; t is the text after the dollar sign,
\* rem the cursor, close the closing bracket
shell_meta_scan(t, rem, close) ==
    IF str_trim(rem) = <<>> THEN Failed("Incomplete")
    ELSE LET d == dquote(str_trim_start(rem))
             s == squote(str_trim_start(rem))
             m == shell_meta(str_trim_start(rem))
         IN  IF d.ok THEN shell_meta_scan(t, d.rem, close)
             ELSE IF s.ok THEN shell_meta_scan(t, s.rem, close)
             ELSE IF m.ok THEN shell_meta_scan(t, m.rem, close)
             ELSE IF rem = <<>> THEN Failed("Incomplete")
             ELSE IF Head(rem) = close
                  THEN LET len == Len(t) - Len(rem) IN
                       Ok(Drop(t, len + 1), Take(t, len + 1))
             ELSE shell_meta_scan(t, Tail(rem), close)

\* token::shell_meta
shell_meta(t) ==
    LET dollar == tag(t, DOLLAR) IN
    IF ~dollar.ok THEN dollar
    ELSE LET after == dollar.rem IN
         IF after = <<>> THEN Failed("Incomplete")
         ELSE IF Head(after) = "(" THEN shell_meta_scan(after, Tail(after), ")")
         ELSE IF Head(after) = "{" THEN shell_meta_scan(after, Tail(after), "}")
         ELSE word(after)

\* alt!: the next alternative is tried after Err::Error only
alt_else(r, next) == IF r.ok \/ r.err # "Error" THEN r ELSE next

\* token::atom
atom(t) == alt_else(shell_meta(t), alt_else(dquote(t), alt_else(squote(t), word(t))))

\* a (key, value) result
OkKV(rem, key, val) == [ok |-> TRUE, err |-> "", rem |-> rem, key |-> key, val |-> val]

FailedKV(kind) == [ok |-> FALSE, err |-> kind, rem |-> <<>>, key |-> <<>>, val |-> <<>>]

\* the (key, val) at the end of keyval: val is the result of atom on the
\* text after the equals sign
keyval_pair(key, val) ==
    IF ~val.ok THEN FailedKV(val.err) ELSE OkKV(val.rem, key, val.tok)

\* keyval that takes all the text before the equals sign as the key
keyval_loose_key(t) ==
    LET upto == take_until1(t, EQ) IN
    IF ~upto.ok THEN FailedKV(upto.err)
    ELSE keyval_pair(upto.tok, atom(Tail(upto.rem)))

\* token::keyval
keyval(t) ==
    LET upto == take_until1(t, EQ) IN
    IF ~upto.ok THEN FailedKV(upto.err)
    ELSE LET w == word(upto.tok) IN
         IF ~w.ok THEN FailedKV(w.err)
         ELSE LET eq == tag(Drop(t, Len(w.tok)), EQ) IN
              IF ~eq.ok THEN FailedKV(eq.err)
              ELSE keyval_pair(w.tok, atom(eq.rem))

\* token::trim_start(tokenizer)(text) is tokenizer(str_trim_start(text))

\* ------------------------------------------------------------ parse.rs

\* parse::word
parse_word(t) ==
    LET r == take_till1(t) IN
    IF ~r.ok /\ r.err = "Incomplete" /\ Len(t) > 0 THEN Ok(<<>>, t) ELSE r

\* parse::squote
parse_squote(t) ==
    LET open == tag(t, SQ) IN
    IF ~open.ok THEN open
    ELSE LET body == take_until(open.rem, SQ) IN
         IF ~body.ok THEN body
         ELSE LET close == tag(body.rem, SQ) IN
              IF ~close.ok THEN close ELSE Ok(close.rem, body.tok)

\* parse::dquote: the loop; t still holds the opening quote, p is the position
\* of the character the iterator yields next
RECURSIVE parse_dquote_scan(_, _)
parse_dquote_scan(t, p) ==
    IF p > Len(t) THEN Failed("Error")
    ELSE IF t[p] = DQ THEN Ok(Drop(t, p), SubSeq(t, 2, p - 1))
    ELSE IF t[p] = BS THEN parse_dquote_scan(t, p + 2)
    ELSE parse_dquote_scan(t, p + 1)

\* parse::dquote
parse_dquote(t) ==
    IF str_trim_end(t) = <<>> THEN Failed("Error")
    ELSE IF t[1] # DQ THEN Failed("Error")
    ELSE parse_dquote_scan(t, 2)

\* parse::token
parse_token(t) == alt_else(parse_dquote(t), alt_else(parse_squote(t), parse_word(t)))

\* ------------------------------------------------------------ ast, env

S_clear == <<"c", "l", "e", "a", "r">>

S_cd == <<"c", "d">>

\* a Builtin or Invoke value: name is the Builtin variant, path the argument
\* of Cd, command and args (the cursor of its ArgsIter) the fields of Invoke
NoCmd == [kind |-> "none", name |-> "", path |-> <<>>, command |-> <<>>, args |-> <<>>]

Clear == [NoCmd EXCEPT !.kind = "Builtin", !.name = "Clear"]

Cd(path) == [NoCmd EXCEPT !.kind = "Builtin", !.name = "Cd", !.path = path]

Invoke(command, args) ==
    [NoCmd EXCEPT !.kind = "Invoke", !.command = command, !.args = args]

\* a Result<_, ParseError>: env is the cursor of the EnvIter of a WithEnv
Parsed(env, cmd) == [ok |-> TRUE, err |-> "", env |-> env, cmd |-> cmd]

ParseError(e) == [ok |-> FALSE, err |-> e, env |-> <<>>, cmd |-> NoCmd]

\* SplitWhitespace::next on the text s: the next run of non-whitespace
split_whitespace_next(s) ==
    LET t == str_trim_start(s)
        i == FindWhitespace(t)
    IN  IF t = <<>> THEN Failed("None")
        ELSE IF i = 0 THEN Ok(<<>>, t)
        ELSE Ok(Drop(t, i - 1), Take(t, i - 1))

\* Builtin::parse_from that does not tell a cd without a path from a command
\* it does not know
Builtin_parse_from_no_domain_error(s) ==
    LET first == split_whitespace_next(str_trim(s)) IN
    IF ~first.ok THEN ParseError("NoInput")
    ELSE IF first.tok = S_clear THEN Parsed(<<>>, Clear)
    ELSE IF first.tok = S_cd /\ split_whitespace_next(first.rem).ok
         THEN Parsed(<<>>, Cd(split_whitespace_next(first.rem).tok))
    ELSE ParseError("Unrecognized")

\* Builtin::parse_from
Builtin_parse_from(s) ==
    LET first == split_whitespace_next(str_trim(s)) IN
    IF ~first.ok THEN ParseError("NoInput")
    ELSE IF first.tok = S_clear THEN Parsed(<<>>, Clear)
    ELSE IF first.tok = S_cd
         THEN LET path == split_whitespace_next(first.rem) IN
              IF ~path.ok THEN ParseError("Other(NoPath)")
              ELSE Parsed(<<>>, Cd(path.tok))
    ELSE ParseError("Unrecognized")

\* ArgsIter::next without the trim_left before the token
ArgsIter_next_no_trim(t) == parse_token(t)

\* ArgsIter::next on the cursor t: Ok is Some(tok) with the cursor moved to
\* rem, anything else is None with the cursor left alone
ArgsIter_next(t) == parse_token(str_trim_start(t))

\* Invoke::parse_from
Invoke_parse_from(s) ==
    LET command == ArgsIter_next(s) IN
    IF ~command.ok THEN ParseError("NoInput")
    ELSE Parsed(<<>>, Invoke(command.tok, command.rem))

\* Cmd::parse_from
Cmd_parse_from(s) ==
    LET b == Builtin_parse_from(s) IN
    IF b.ok THEN b ELSE Invoke_parse_from(s)

\* EnvIter::next that skips a word that is no key=value pair
EnvIter_next_skip_word(t) ==
    LET r == keyval(str_trim_start(t))
        w == word(str_trim_start(t))
    IN  IF r.ok \/ ~w.ok THEN r ELSE keyval(str_trim_start(w.rem))

\* EnvIter::next on the cursor t: Ok is Some(EnvVar(key, val)) with the cursor
\* moved to rem, anything else is None with the cursor left alone
EnvIter_next(t) == keyval(str_trim_start(t))

\* ei.by_ref().for_each(drop): the cursor once next has returned None
RECURSIVE EnvIter_exhaust(_)
EnvIter_exhaust(t) ==
    LET r == EnvIter_next(t) IN
    IF r.ok THEN EnvIter_exhaust(r.rem) ELSE t

\* Ok(WithEnv { env: EnvIter::new(s), cmd }): cmd is the result of
\* Cmd::parse_from, whose error the ? operator returns
WithEnv_new(s, cmd) == IF ~cmd.ok THEN cmd ELSE Parsed(s, cmd.cmd)

\* WithEnv::parse_from that parses the command from the whole line
WithEnv_parse_from_whole_line(s) == WithEnv_new(s, Cmd_parse_from(s))

\* WithEnv::parse_from: cmd_str is the cursor of the exhausted EnvIter
WithEnv_parse_from(s) == WithEnv_new(s, Cmd_parse_from(EnvIter_exhaust(s)))

\* ------------------------------------------------------------ windows

\* the longest window of the tokenizer specification
MaxLen == 5

\* the character sets the windows are drawn over
Alphabets ==
    { {"a", "b", SP, TAB},
      {"a", SP, EQ, DQ},
      {"a", EQ, DOLLAR, "(", ")"},
      {"a", SQ, DQ, BS},
      {"a", SP, DOLLAR, "{", "}"},
      {"a", SP, DQ, DOLLAR} }

\* every text over the characters A of at most n characters
Strings(A, n) == UNION { [1 .. k -> A] : k \in 0 .. n }

Windows == UNION { Strings(A, MaxLen) : A \in Alphabets }

\* a window taken as it is
Flat(t) == [kind |-> "flat", body |-> t, post |-> <<>>]

NoResult == [ok |-> FALSE, err |-> "none", rem |-> <<>>, tok |-> <<>>]

\* an iterator over a text: live once it has been created, text its cursor, out
\* what it has yielded so far, ended whether its last call to next returned None
Iter(t) == [live |-> TRUE, text |-> t, out |-> <<>>, ended |-> FALSE]

NoIter == [live |-> FALSE, text |-> <<>>, out |-> <<>>, ended |-> FALSE]

\* ------------------------------------------------------------ tokenizer calls

Word ==
    /\ op = "none"
    /\ op' = "word"
    /\ res' = word(text)
    /\ UNCHANGED <<text, shape, env_iter, args_iter, run, host, trie>>

Squote ==
    /\ op = "none"
    /\ op' = "squote"
    /\ res' = squote(text)
    /\ UNCHANGED <<text, shape, env_iter, args_iter, run, host, trie>>

Dquote ==
    /\ op = "none"
    /\ op' = "dquote"
    /\ res' = dquote(text)
    /\ UNCHANGED <<text, shape, env_iter, args_iter, run, host, trie>>

ShellMeta ==
    /\ op = "none"
    /\ op' = "shell_meta"
    /\ res' = shell_meta(text)
    /\ UNCHANGED <<text, shape, env_iter, args_iter, run, host, trie>>

Atom ==
    /\ op = "none"
    /\ op' = "atom"
    /\ res' = atom(text)
    /\ UNCHANGED <<text, shape, env_iter, args_iter, run, host, trie>>

Keyval ==
    /\ op = "none"
    /\ op' = "keyval"
    /\ res' = keyval(text)
    /\ UNCHANGED <<text, shape, env_iter, args_iter, run, host, trie>>

\* parse::token, the any-token parser of parse.rs
ParseToken ==
    /\ op = "none"
    /\ op' = "parse::token"
    /\ res' = parse_token(text)
    /\ UNCHANGED <<text, shape, env_iter, args_iter, run, host, trie>>

\* ------------------------------------------------------------ specification
\* one tokenizer of token.rs, or the token parser of parse.rs, applied to one
\* window

Init ==
    /\ text \in Windows
    /\ shape = Flat(text)
    /\ op = "none"
    /\ res = NoResult
    /\ env_iter = NoIter
    /\ args_iter = NoIter
    /\ run = NoRun
    /\ host = NoHost
    /\ trie = NoTrie

Next == Word \/ Squote \/ Dquote \/ ShellMeta \/ Atom \/ Keyval \/ ParseToken

Spec == Init /\ [][Next]_vars

\* ------------------------------------------------------------ text predicates

HasWhitespace(s) == \E i \in 1 .. Len(s) : is_whitespace(s[i])

HasChar(s, c) == \E i \in 1 .. Len(s) : s[i] = c

\* ------------------------------------------------------------ nested windows
\* Windows built from the grammar of nested sequences: a bracketed
\* meta-sequence holds plain text around at most one span, and a span is a
\* quoted string that holds closers and quotes, a meta-sequence one level
\* down, or such a meta-sequence in double quotes.

\* the levels of meta-sequences below the outermost one
MaxDepth == 1

PadBefore == {<<>>, <<"a", SP>>}

PadAfter == {<<>>, <<SP>>}

QuoteSpans ==
    { <<DQ>> \o c \o <<DQ>> : c \in {<<")">>, <<"}">>, <<"n">>} }
        \cup { <<SQ>> \o c \o <<SQ>> : c \in {<<")">>, <<DQ>>} }

RECURSIVE Metas(_)

Spans(d) ==
    QuoteSpans
        \cup (IF d = 0 THEN {}
              ELSE Metas(d - 1) \cup { <<DQ>> \o m \o <<DQ>> : m \in Metas(d - 1) })

Interiors(d) ==
    { p \o x \o q : p \in PadBefore, x \in Spans(d) \cup {<<>>}, q \in PadAfter }

Metas(d) ==
    { <<DOLLAR, "(">> \o i \o <<")">> : i \in Interiors(d) }
        \cup { <<DOLLAR, "{">> \o i \o <<"}">> : i \in Interiors(d) }

\* the text that follows the token in the window
Posts == {<<>>, <<")", "}", DQ>>}

NestShapes ==
    [kind : {"meta"}, body : Metas(MaxDepth), post : Posts]
        \cup [kind : {"dquote"},
              body : { p \o m \o q : p \in PadBefore, m \in Metas(MaxDepth), q \in PadAfter },
              post : Posts]

\* the window of a shape
WindowOf(sh) ==
    IF sh.kind = "dquote" THEN <<DQ>> \o sh.body \o <<DQ>> \o sh.post
    ELSE sh.body \o sh.post

\* dquote or shell_meta applied to one nested window
InitNest ==
    /\ shape \in NestShapes
    /\ text = WindowOf(shape)
    /\ op = "none"
    /\ res = NoResult
    /\ env_iter = NoIter
    /\ args_iter = NoIter
    /\ run = NoRun
    /\ host = NoHost
    /\ trie = NoTrie

NextNest == Dquote \/ ShellMeta

SpecNest == InitNest /\ [][NextNest]_vars

\* ------------------------------------------------------------ claims: nesting

\* C1: for a double-quoted text whose body holds nested bracketed
\* meta-sequences and quotes inside them, dquote returns the whole body
\* between the outer quotes as the token and the text after the outer closing
\* quote as the remainder.
C1_DquoteNested ==
    (op = "dquote" /\ shape.kind = "dquote") => res = Ok(shape.post, shape.body)

\* the body holds a double quote inside a meta-sequence that is itself
\* nested in a meta-sequence
C1_Witness ==
    /\ op = "dquote"
    /\ shape.kind = "dquote"
    /\ res.ok
    /\ HasChar(res.tok, DQ)
    /\ \E i \in 1 .. Len(res.tok) : \E j \in i + 1 .. Len(res.tok) :
            res.tok[i] = DOLLAR /\ res.tok[j] = DOLLAR

\* C2: a bracketed meta-sequence is closed by the first matching closer that
\* is outside every nested quoted span and nested meta-sequence: shell_meta
\* returns the whole sequence, without the dollar sign, whatever closers and
\* quotes its nested spans hold.
C2_MetaNested ==
    (op = "shell_meta" /\ shape.kind = "meta") => res = Ok(shape.post, Tail(shape.body))

\* the closer of the sequence also occurs inside it, within a nested span
C2_Witness ==
    /\ op = "shell_meta"
    /\ shape.kind = "meta"
    /\ res.ok
    /\ \E i \in 2 .. Len(res.tok) - 1 : res.tok[i] = res.tok[Len(res.tok)]
    /\ HasChar(res.tok, DQ)

\* ------------------------------------------------------------ parser calls

\* the ArgsIter of a parsed command, if it is an Invoke
ArgsOf(r) == IF r.ok /\ r.cmd.kind = "Invoke" THEN Iter(r.cmd.args) ELSE NoIter

BuiltinParse ==
    /\ op = "none"
    /\ op' = "Builtin::parse_from"
    /\ res' = Builtin_parse_from(text)
    /\ UNCHANGED <<text, shape, env_iter, args_iter, run, host, trie>>

InvokeParse ==
    /\ op = "none"
    /\ op' = "Invoke::parse_from"
    /\ res' = Invoke_parse_from(text)
    /\ args_iter' = ArgsOf(res')
    /\ UNCHANGED <<text, shape, env_iter, run, host, trie>>

CmdParse ==
    /\ op = "none"
    /\ op' = "Cmd::parse_from"
    /\ res' = Cmd_parse_from(text)
    /\ args_iter' = ArgsOf(res')
    /\ UNCHANGED <<text, shape, env_iter, run, host, trie>>

WithEnvParse ==
    /\ op = "none"
    /\ op' = "WithEnv::parse_from"
    /\ res' = WithEnv_parse_from(text)
    /\ env_iter' = IF res'.ok THEN Iter(res'.env) ELSE NoIter
    /\ args_iter' = ArgsOf(res')
    /\ UNCHANGED <<text, shape, run, host, trie>>

EnvIterNew ==
    /\ op = "none"
    /\ op' = "EnvIter::new"
    /\ env_iter' = Iter(text)
    /\ UNCHANGED <<text, shape, res, args_iter, run, host, trie>>

\* a call of next that leaves the cursor after the whitespace it has skipped
\* when it returns None
Advance_trim_on_none(it, r, item) ==
    IF r.ok
    THEN [it EXCEPT !.text = r.rem, !.out = Append(@, item), !.ended = FALSE]
    ELSE [it EXCEPT !.text = str_trim_start(@), !.ended = TRUE]

\* a call of next that yields its item and leaves the cursor where it was
Advance_keep_cursor(it, r, item) ==
    IF r.ok
    THEN [it EXCEPT !.out = Append(@, item), !.ended = FALSE]
    ELSE [it EXCEPT !.ended = TRUE]

\* one call of next on the iterator it, with the result r
Advance(it, r, item) ==
    IF r.ok
    THEN [it EXCEPT !.text = r.rem, !.out = Append(@, item), !.ended = FALSE]
    ELSE [it EXCEPT !.ended = TRUE]

EnvIterNext ==
    /\ env_iter.live
    /\ LET r == EnvIter_next(env_iter.text) IN
       env_iter' = Advance(env_iter, r, [key |-> r.key, value |-> r.val])
    /\ UNCHANGED <<text, shape, op, res, args_iter, run, host, trie>>

ArgsIterNext ==
    /\ args_iter.live
    /\ LET r == ArgsIter_next(args_iter.text) IN
       args_iter' = Advance(args_iter, r, r.tok)
    /\ UNCHANGED <<text, shape, op, res, env_iter, run, host, trie>>

\* EnvIter::new on the text an ended scan has left: out goes on collecting
\* what the scans of the line yield
EnvIterRescan ==
    /\ op = "EnvIter::new"
    /\ env_iter.ended
    /\ op' = "EnvIter::new(rest)"
    /\ env_iter' = [Iter(env_iter.text) EXCEPT !.out = env_iter.out]
    /\ UNCHANGED <<text, shape, res, args_iter, run, host, trie>>

\* ------------------------------------------------------------ input lines
\* A line is a run of key=value pairs and then a command text, with one
\* separator between them.

\* the most key=value pairs before the command
MaxPairs == 2

S_TEST == <<"T", "E", "S", "T">>

S_AUTHOR == <<"A", "U", "T", "H", "O", "R">>

S_myrrlyn == <<"m", "y", "r", "r", "l", "y", "n">>

S_complex_path == <<"c", "o", "m", "p", "l", "e", "x", SP, "p", "a", "t", "h">>

S_command == <<"c", "o", "m", "m", "a", "n", "d">>

S_argument == <<"a", "r", "g", "u", "m", "e", "n", "t">>

S_complex_argument == <<"c", "o", "m", "p", "l", "e", "x", SP>> \o S_argument

S_ls == <<"l", "s">>

S_exit == <<"e", "x", "i", "t">>

S_unterminated == <<SQ, "u", "n", "t", "e", "r", "m", "i", "n", "a", "t", "e", "d">>

\* a pair as it is written, with its key and its value
Pair(key, val, quote) ==
    [key |-> key, value |-> val, src |-> key \o <<EQ>> \o quote \o val \o quote]

PairTexts ==
    { Pair(S_TEST, <<"1">>, <<>>),
      Pair(S_AUTHOR, S_myrrlyn, <<>>),
      Pair(<<"K">>, <<"a", SP, "b">>, <<DQ>>) }

\* a command text as it is written, with the tokens it holds (none for a
\* quote that is never closed)
Command(src, words) == [src |-> src, words |-> words]

CommandTexts ==
    { Command(<<>>, <<>>),
      Command(S_cd, <<S_cd>>),
      Command(S_cd \o <<SP, "x">>, <<S_cd, <<"x">>>>),
      Command(S_cd \o <<SP, SQ>> \o S_complex_path \o <<SQ>>, <<S_cd, S_complex_path>>),
      Command(S_cd \o <<SP, "a", SP, "b">>, <<S_cd, <<"a">>, <<"b">>>>),
      Command(S_clear, <<S_clear>>),
      Command(S_clear \o <<SP, "x">>, <<S_clear, <<"x">>>>),
      Command(S_exit, <<S_exit>>),
      Command(S_unterminated, <<>>),
      Command(S_ls, <<S_ls>>),
      Command(S_ls \o <<SP, "K", EQ, "v">>, <<S_ls, <<"K", EQ, "v">>>>),
      Command(S_ls \o <<SP, DQ, DQ, SP, "x", SP>>, <<S_ls, <<>>, <<"x">>>>),
      Command(S_ls \o <<SP, SQ, "a", SP, "b", SQ, SP, TAB, DQ, "c", BS, DQ, SP, "d", DQ, SP, "e">>,
              <<S_ls, <<"a", SP, "b">>, <<"c", BS, DQ, SP, "d">>, <<"e">>>>),
      Command(S_command \o <<SP>> \o S_argument \o <<SP, DQ>> \o S_complex_argument \o <<DQ>>,
              <<S_command, S_argument, S_complex_argument>>) }

Separators == {<<SP>>, <<SP, TAB>>}

LineShapes ==
    [kind : {"line"},
     pairs : UNION { [1 .. n -> PairTexts] : n \in 0 .. MaxPairs },
     sep : Separators,
     cmd : CommandTexts]

\* `a $(b "c") d`
S_nested_argument == <<"a", SP, DOLLAR, "(", "b", SP, DQ, "c", DQ, ")", SP, "d">>

\* command texts with a double-quoted argument whose meta-sequence holds
\* double quotes, with the tokens they hold
NestedCommandTexts ==
    { Command(S_ls \o <<SP, DQ>> \o S_nested_argument \o <<DQ>>, <<S_ls, S_nested_argument>>),
      Command(S_ls \o <<SP, DQ, DOLLAR, "(", DQ, "x", DQ, ")", DQ, SP, "e">>,
              <<S_ls, <<DOLLAR, "(", DQ, "x", DQ, ")">>, <<"e">>>>) }

\* lines that are such a command text
NestedLineShapes ==
    [kind : {"nested line"},
     pairs : {<<>>},
     sep : {<<SP>>},
     cmd : NestedCommandTexts]

\* the pairs of a line as they are written, each followed by the separator
RECURSIVE PairsText(_, _)
PairsText(pairs, sep) ==
    IF pairs = <<>> THEN <<>>
    ELSE Head(pairs).src \o sep \o PairsText(Tail(pairs), sep)

\* the text of a line
LineOf(sh) == PairsText(sh.pairs, sh.sep) \o sh.cmd.src

\* the text of a line after its last pair
RestOf(sh) == IF sh.pairs = <<>> THEN sh.cmd.src ELSE sh.sep \o sh.cmd.src

\* the EnvVars of a line
EnvVarsOf(sh) ==
    [i \in 1 .. Len(sh.pairs) |-> [key |-> sh.pairs[i].key, value |-> sh.pairs[i].value]]

\* one parser of ast or one iterator of env applied to one line
InitLine ==
    /\ shape \in LineShapes \cup NestedLineShapes
    /\ text = LineOf(shape)
    /\ op = "none"
    /\ res = ParseError("none")
    /\ env_iter = NoIter
    /\ args_iter = NoIter
    /\ run = NoRun
    /\ host = NoHost
    /\ trie = NoTrie

NextLine ==
    \/ BuiltinParse
    \/ InvokeParse
    \/ CmdParse
    \/ WithEnvParse
    \/ EnvIterNew
    \/ EnvIterNext
    \/ ArgsIterNext
    \/ EnvIterRescan

SpecLine == InitLine /\ [][NextLine]_vars

\* ------------------------------------------------------------ main.rs
\* the characters State::run matches on, as code points
ESC == 27

BACKSPACE == 8

DELETE == 127

ENTER == 13

\* `c as u8`: the cast of a char to a byte keeps the low eight bits
as_u8(c) == c % 256

\* the guard of the printable arm
is_printable(c) == as_u8(c) >= 32 /\ as_u8(c) <= 126

\* the longest line a session of the model types
MaxLine == 4

\* the characters read_char delivers: the four control keys, printable ASCII
\* (space, ', c, d, x), a tab, U+00E9, and U+010D, U+0141 and U+4E2D from
\* above U+00FF
Keys == {ESC, BACKSPACE, DELETE, ENTER, 32, 39, 99, 100, 120, 9, 233, 269, 321, 20013}

\* the character a byte of the line buffer stands for
Chr(b) ==
    CASE b = 32 -> SP
      [] b = 39 -> SQ
      [] b = 45 -> "-"
      [] b = 65 -> "A"
      [] b = 99 -> "c"
      [] b = 100 -> "d"
      [] b = 120 -> "x"
      [] OTHER -> "?"

\* str::from_utf8 of the line buffer (all of its bytes are ASCII)
from_utf8(bytes) == [i \in 1 .. Len(bytes) |-> Chr(bytes[i])]

\* the value of run in the loop of State::run
Running(buffer, c, parsed) == [line |-> buffer, c |-> c, at |-> "loop", parsed |-> parsed]

\* State::run has returned: Ok(()) after the break, Err(_) where a `?` left it
Returned(buffer, c, parsed, how) == [line |-> buffer, c |-> c, at |-> how, parsed |-> parsed]

NotParsed == ParseError("none")

\* the Enter arm once Cmd::parse_from has returned r: an error goes back to
\* the top of the loop (continue); a command is dispatched, where io says
\* whether the screen calls went through, and then the line is cleared
OnEnter(buffer, r, io) ==
    IF ~r.ok THEN Running(buffer, ENTER, r)
    ELSE IF ~io THEN Returned(buffer, ENTER, r, "Err")
    ELSE Running(<<>>, ENTER, r)

\* the printable arm: line.push(c as u8), then screen.write and flush
OnPrintable(buffer, c, io) ==
    IF io THEN Running(Append(buffer, as_u8(c)), c, NotParsed)
    ELSE Returned(Append(buffer, as_u8(c)), c, NotParsed, "Err")

\* '\u{001B}' => break
ReadEsc ==
    /\ run.at = "loop"
    /\ run' = Returned(run.line, ESC, NotParsed, "Ok")
    /\ UNCHANGED <<text, shape, op, res, env_iter, args_iter, host, trie>>

\* '\u{0008}' | '\u{007F}': pop the last byte of a non-empty line
ReadBackspace ==
    /\ run.at = "loop"
    /\ \E c \in {BACKSPACE, DELETE} : \E io \in BOOLEAN :
         run' = IF run.line = <<>>
                THEN IF io THEN Running(run.line, c, NotParsed)
                     ELSE Returned(run.line, c, NotParsed, "Err")
                ELSE IF io THEN Running(Take(run.line, Len(run.line) - 1), c, NotParsed)
                     ELSE Returned(Take(run.line, Len(run.line) - 1), c, NotParsed, "Err")
    /\ UNCHANGED <<text, shape, op, res, env_iter, args_iter, host, trie>>

\* '\u{000D}': parse the line and dispatch the command
ReadEnter ==
    /\ run.at = "loop"
    /\ \E io \in BOOLEAN :
         run' = OnEnter(run.line, Cmd_parse_from(from_utf8(run.line)), io)
    /\ UNCHANGED <<text, shape, op, res, env_iter, args_iter, host, trie>>

\* c if c as u8 >= 32 && c as u8 <= 126
ReadPrintable ==
    /\ run.at = "loop"
    /\ Len(run.line) < MaxLine
    /\ \E c \in Keys \ {ESC, BACKSPACE, DELETE, ENTER} : \E io \in BOOLEAN :
         /\ is_printable(c)
         /\ run' = OnPrintable(run.line, c, io)
    /\ UNCHANGED <<text, shape, op, res, env_iter, args_iter, host, trie>>

\* _ => {}
ReadOther ==
    /\ run.at = "loop"
    /\ \E c \in Keys \ {ESC, BACKSPACE, DELETE, ENTER} : \E io \in BOOLEAN :
         /\ ~is_printable(c)
         /\ run' = IF io THEN Running(run.line, c, NotParsed)
                   ELSE Returned(run.line, c, NotParsed, "Err")
    /\ UNCHANGED <<text, shape, op, res, env_iter, args_iter, host, trie>>

\* stdin.read_char()? fails
ReadFails ==
    /\ run.at = "loop"
    /\ run' = Returned(run.line, run.c, run.parsed, "Err")
    /\ UNCHANGED <<text, shape, op, res, env_iter, args_iter, host, trie>>

\* a session: State::run entered with an empty line buffer
InitRun ==
    /\ text = <<>>
    /\ shape = Flat(<<>>)
    /\ op = "none"
    /\ res = NoResult
    /\ env_iter = NoIter
    /\ args_iter = NoIter
    /\ run = Running(<<>>, 0, NotParsed)
    /\ host = NoHost
    /\ trie = NoTrie

NextRun ==
    \/ ReadEsc
    \/ ReadBackspace
    \/ ReadEnter
    \/ ReadPrintable
    \/ ReadOther
    \/ ReadFails

SpecRun == InitRun /\ [][NextRun]_vars

\* ------------------------------------------------------------ st.rs
\* Vec::with_capacity(32)
InitialCapacity == 32

\* the buffer length beyond which hostname gives up
TooLarge == 1024

\* the longest host name of the model, in bytes (HOST_NAME_MAX of Linux)
MaxHostName == 64

\* Vec::reserve: room for at least additional more elements after the len
\* ones the vector holds; nothing happens when the capacity is enough
reserve(b, additional) ==
    IF b.cap - b.len >= additional THEN b
    ELSE [b EXCEPT !.cap = IF 2 * b.cap >= b.len + additional
                            THEN 2 * b.cap ELSE b.len + additional]

\* libc::gethostname(ptr, cap) for a name of n bytes: it fits with its NUL
\* byte, or the call fails with ENAMETOOLONG, or (a libc that truncates
\* silently) succeeds with the cut name
gethostname(n, cap) ==
    IF n + 1 <= cap THEN {"0"} ELSE {"-1 ENAMETOOLONG", "0"}

\* top of the loop: give up on a buffer longer than TooLarge, else call
\* gethostname
CallGethostname ==
    /\ host.at = "loop"
    /\ IF host.len > TooLarge
       THEN host' = [host EXCEPT !.at = "Err(Hostname is too large!)"]
       ELSE \E r \in gethostname(host.name, host.cap) :
                host' = [host EXCEPT !.res = r, !.at = "called"]
    /\ UNCHANGED <<text, shape, op, res, env_iter, args_iter, run, trie>>

\* res == -1 with ENAMETOOLONG: buf.reserve(buf.capacity()); continue
Retry ==
    /\ host.at = "called"
    /\ host.res = "-1 ENAMETOOLONG"
    /\ host' = [reserve(host, host.cap) EXCEPT !.at = "loop"]
    /\ UNCHANGED <<text, shape, op, res, env_iter, args_iter, run, trie>>

\* gethostname succeeded: the buffer becomes the String, or the name is not
\* UTF-8
Break ==
    /\ host.at = "called"
    /\ host.res = "0"
    /\ \E utf8 \in BOOLEAN :
         host' = IF utf8
                 THEN [host EXCEPT !.at = "Ok",
                                   !.len = IF host.name + 1 <= host.cap
                                           THEN host.name ELSE host.cap - 1]
                 ELSE [host EXCEPT !.at = "Err(The hostname is invalid UTF-8)"]
    /\ UNCHANGED <<text, shape, op, res, env_iter, args_iter, run, trie>>

\* hostname() called on a machine whose name has 0 to MaxHostName bytes
InitHost ==
    /\ text = <<>>
    /\ shape = Flat(<<>>)
    /\ op = "none"
    /\ res = NoResult
    /\ env_iter = NoIter
    /\ args_iter = NoIter
    /\ run = NoRun
    /\ \E n \in 0 .. MaxHostName :
         host = [name |-> n, len |-> 0, cap |-> InitialCapacity, res |-> "none", at |-> "loop"]
    /\ trie = NoTrie

NextHost == CallGethostname \/ Retry \/ Break

\* the function runs on: a step that can be taken is taken
SpecHost == InitHost /\ [][NextHost]_vars /\ WF_vars(NextHost)

\* ------------------------------------------------------------ trie/map.rs
\* the key fragments of the model
Frags == {"a", "b"}

\* the longest key and the most insertions of the model
MaxKeyLen == 2

MaxInserts == 3

\* the keys inserted: every word of at most MaxKeyLen fragments
TrieKeys == UNION { [1 .. k -> Frags] : k \in 1 .. MaxKeyLen }

\* the non-empty beginnings of the key k: the nodes insert walks through
PrefixesOf(k) == { Take(k, n) : n \in 1 .. Len(k) }

\* TrieMap::insert: walk from the root along the key, making the children
\* that are missing, and put the value into the last node
insert(t, k, value) ==
    [nodes |-> t.nodes \cup PrefixesOf(k),
     values |-> { p \in t.values : p[1] # k } \cup { <<k, value>> }]

\* Node::children of the node at path p: an iterator over its children, in
\* no particular order (a HashMap), as the fragments it has yet to yield
children(t, p) ==
    [node |-> p, pending |-> { f \in Frags : Append(p, f) \in t.nodes }]

\* the value field of the node at path p, as a set (empty for None)
value_of(t, p) == { q[2] : q \in { r \in t.values : r[1] = p } }

\* the fragment f has been taken from the iterator it
Taken(it, f) == [it EXCEPT !.pending = @ \ {f}]

\* Iter::next, one turn of its loop with the first iterator of the stack
\* yielding the child f: push the child's iterator and the fragment, and
\* return the key and the value if the child holds one
IterYield(tr, f) ==
    LET child == Append(tr.stack[1].node, f)
        taken == [tr.stack EXCEPT ![1] = Taken(@, f)]
    IN  [tr EXCEPT !.stack = Append(taken, children(tr.root, child)),
                   !.key = Append(tr.key, f),
                   !.out = IF value_of(tr.root, child) = {} THEN tr.out
                           ELSE Append(tr.out,
                                       <<Append(tr.key, f),
                                         CHOOSE v \in value_of(tr.root, child) : TRUE>>)]

\* Iter::next, one turn of its loop with the first iterator of the stack at
\* its end: pop the stack and the key
IterPop(tr) ==
    [tr EXCEPT !.stack = Take(tr.stack, Len(tr.stack) - 1),
               !.key = IF tr.key = <<>> THEN <<>> ELSE Take(tr.key, Len(tr.key) - 1)]

\* trie.insert(key, i) for the next i, as test::iter numbers its words
Insert ==
    /\ trie.at = "build"
    /\ trie.n < MaxInserts
    /\ \E k \in TrieKeys :
         trie' = [trie EXCEPT !.root = insert(trie.root, k, trie.n), !.n = trie.n + 1]
    /\ UNCHANGED <<text, shape, op, res, env_iter, args_iter, run, host>>

\* Node::iter on the root: a stack that holds the iterator over the root's
\* children, and an empty key
NodeIter ==
    /\ trie.at = "build"
    /\ trie' = [trie EXCEPT !.at = "iter",
                            !.key = <<>>,
                            !.stack = <<children(trie.root, <<>>)>>]
    /\ UNCHANGED <<text, shape, op, res, env_iter, args_iter, run, host>>

\* Iter::next: a turn of its loop
IterNext ==
    /\ trie.at = "iter"
    /\ IF trie.stack = <<>>
       THEN trie' = [trie EXCEPT !.at = "done"]
       ELSE IF trie.stack[1].pending = {}
       THEN trie' = IterPop(trie)
       ELSE \E f \in trie.stack[1].pending : trie' = IterYield(trie, f)
    /\ UNCHANGED <<text, shape, op, res, env_iter, args_iter, run, host>>

\* a map as TrieMap::new makes it
InitTrie ==
    /\ text = <<>>
    /\ shape = Flat(<<>>)
    /\ op = "none"
    /\ res = NoResult
    /\ env_iter = NoIter
    /\ args_iter = NoIter
    /\ run = NoRun
    /\ host = NoHost
    /\ trie = [NoTrie EXCEPT !.at = "build"]

NextTrie == Insert \/ NodeIter \/ IterNext

SpecTrie == InitTrie /\ [][NextTrie]_vars

\* ------------------------------------------------------------ claims: lines

\* C4: a line whose command word is cd never parses to an Invoke of cd.
C4_CdNeverInvoke ==
    ( /\ op \in {"Cmd::parse_from", "WithEnv::parse_from"}
      /\ shape.cmd.words # <<>>
      /\ shape.cmd.words[1] = S_cd )
        => ~(res.ok /\ res.cmd.kind = "Invoke" /\ res.cmd.command = S_cd)

\* C5: the path of cd is one token of the token grammar: for a line whose
\* command is cd and one path, quoted or not, the parse gives Builtin::Cd with
\* that path, without its quotes.
C5_CdPathIsToken ==
    ( /\ op = "WithEnv::parse_from"
      /\ Len(shape.cmd.words) = 2
      /\ shape.cmd.words[1] = S_cd )
        => (res.ok /\ res.cmd = Cd(shape.cmd.words[2]))

IsPrefix(a, b) == Len(a) <= Len(b) /\ a = Take(b, Len(a))

\* r is the end of t
IsSuffix(r, t) == Len(r) <= Len(t) /\ r = Drop(t, Len(t) - Len(r))

\* C6: WithEnv::parse_from parses the command from the text that follows the
\* leading pairs and fails exactly when that parse fails, with its error; the
\* env iterator it returns starts at the start of the line and yields the
\* leading pairs in order; a line of pairs only fails; the command of an
\* Invoke is the first word of the command text and its args iterator yields
\* the tokens after it.
C6_WithEnvContract ==
    op = "WithEnv::parse_from" =>
        LET cmd == Cmd_parse_from(RestOf(shape)) IN
        /\ res.ok <=> cmd.ok
        /\ ~res.ok => res.err = cmd.err
        /\ res.ok => (res.cmd = cmd.cmd /\ res.env = text /\ env_iter.live)
        /\ env_iter.live => IsPrefix(env_iter.out, EnvVarsOf(shape))
        /\ env_iter.ended => (env_iter.out = EnvVarsOf(shape) /\ env_iter.text = RestOf(shape))
        /\ shape.cmd.src = <<>> => ~res.ok
        /\ (res.ok /\ res.cmd.kind = "Invoke" /\ shape.kind = "line")
              => /\ res.cmd.command = shape.cmd.words[1]
                 /\ args_iter.live
                 /\ IsPrefix(args_iter.out, Tail(shape.cmd.words))
                 /\ args_iter.ended => args_iter.out = Tail(shape.cmd.words)

\* the env iterator of a parsed line with two pairs has been run to its end
C6_Witness ==
    /\ op = "WithEnv::parse_from"
    /\ res.ok
    /\ env_iter.ended
    /\ Len(env_iter.out) = 2

\* C7: an EnvIter yields the leading pairs of its text from left to right,
\* whatever whitespace is before each, stops where the next text is no pair,
\* with its cursor there, and never yields a pair that comes after that place.
C7_EnvIterGreedy ==
    env_iter.live =>
        /\ IsPrefix(env_iter.out, EnvVarsOf(shape))
        /\ env_iter.ended => (env_iter.out = EnvVarsOf(shape) /\ env_iter.text = RestOf(shape))

\* the scan has ended after two pairs, before a command that holds a pair
C7_Witness ==
    /\ op = "EnvIter::new"
    /\ env_iter.ended
    /\ Len(env_iter.out) = 2
    /\ HasChar(env_iter.text, EQ)

\* C16: for a command text that does not begin with a builtin name and holds
\* no meta-sequence with quotes in a double-quoted argument, Cmd::parse_from gives an Invoke whose command is the first token of the
\* text and whose args iterator yields the tokens after it in order, a quoted
\* argument as one argument without its quotes.
C16_InvokeArgs ==
    ( /\ op = "Cmd::parse_from"
      /\ shape.kind = "line"
      /\ shape.pairs = <<>>
      /\ shape.cmd.words # <<>>
      /\ shape.cmd.words[1] \notin {S_clear, S_cd, S_exit} )
        => /\ res.ok
           /\ res.cmd.kind = "Invoke"
           /\ res.cmd.command = shape.cmd.words[1]
           /\ args_iter.live
           /\ IsPrefix(args_iter.out, Tail(shape.cmd.words))
           /\ args_iter.ended =>
                 (args_iter.out = Tail(shape.cmd.words) /\ str_trim(args_iter.text) = <<>>)

\* the args iterator has yielded a single-quoted, a double-quoted and a bare
\* argument and has ended
C16_Witness ==
    /\ op = "Cmd::parse_from"
    /\ shape.pairs = <<>>
    /\ args_iter.ended
    /\ Len(args_iter.out) = 3
    /\ HasWhitespace(args_iter.out[1])
    /\ HasChar(args_iter.out[2], DQ)

\* ------------------------------------------------------------ claims: iterators

\* C21: the scan of the environment prefix is idempotent on its remainder: a
\* call of next that returns None leaves the cursor at the text after the
\* leading pairs, a later call on the same iterator changes nothing, and a
\* new scan of that remainder yields no further EnvVar.
C21_EnvIterIdempotent ==
    /\ [](env_iter.ended => env_iter.text = RestOf(shape))
    /\ [](op = "EnvIter::new(rest)" =>
            (env_iter.out = EnvVarsOf(shape) /\ env_iter.text = RestOf(shape)))
    /\ [][(env_iter.ended /\ op' = op) => env_iter' = env_iter]_vars

\* a new scan of the remainder of a line with two pairs has ended
C21_Witness ==
    /\ op = "EnvIter::new(rest)"
    /\ env_iter.ended
    /\ Len(env_iter.out) = 2
    /\ env_iter.text # <<>>

\* C22: iterating an ArgsIter ends: a call of next that yields a token
\* leaves a shorter text, a call that returns None leaves the cursor where it
\* was, and a call on a blank text returns None.
C22_ArgsIterFinite ==
    [][(args_iter.live /\ args_iter' # args_iter) =>
          /\ args_iter'.live
          /\ IF args_iter'.ended
             THEN args_iter'.text = args_iter.text /\ args_iter'.out = args_iter.out
             ELSE /\ Len(args_iter'.text) < Len(args_iter.text)
                  /\ IsSuffix(args_iter'.text, args_iter.text)
                  /\ Len(args_iter'.out) = Len(args_iter.out) + 1
          /\ str_trim(args_iter.text) = <<>> => args_iter'.ended]_vars

\* the iterator has yielded an empty token and a word and has ended on
\* the whitespace that is left
C22_Witness ==
    /\ args_iter.ended
    /\ Len(args_iter.out) = 2
    /\ args_iter.out[1] = <<>>
    /\ args_iter.text # <<>>

\* ------------------------------------------------------------ claims: session
\* C23: Enter on a line that fails to parse neither ends the session nor keeps
\* the line: the loop goes on with an empty line buffer, as it does after a
\* line that parsed.
C23_BadLineDiscarded ==
    (run.c = ENTER /\ ~run.parsed.ok) => (run.at = "loop" /\ run.line = <<>>)

\* C28: a keystroke other than Enter, Backspace, Delete and ESC is appended to
\* the line buffer exactly when it is printable ASCII (U+0020 to U+007E), as
\* that very character; any other one, each character above U+00FF among
\* them, leaves the buffer as it was; Backspace on an empty buffer leaves it
\* empty.
C28_OnlyPrintableAscii ==
    [][/\ (run'.c \notin {ESC, BACKSPACE, DELETE, ENTER} /\ run'.c # run.c) =>
            IF run'.c >= 32 /\ run'.c <= 126
            THEN run'.line = Append(run.line, run'.c)
            ELSE run'.line = run.line
       /\ (run'.c \in {BACKSPACE, DELETE} /\ run.line = <<>>) => run'.line = <<>>]_vars

\* C26: the args iterator of an Invoke yields a double-quoted argument that
\* holds a meta-sequence with double quotes in it as one argument, the whole
\* text between the outer quotes: the inner quotes do not end the argument.
C26_NestedArgument ==
    ( /\ op \in {"Invoke::parse_from", "Cmd::parse_from", "WithEnv::parse_from"}
      /\ shape.kind = "nested line"
      /\ res.ok )
        => /\ res.cmd = Invoke(shape.cmd.words[1], Drop(shape.cmd.src, Len(shape.cmd.words[1])))
           /\ IsPrefix(args_iter.out, Tail(shape.cmd.words))
           /\ args_iter.ended => args_iter.out = Tail(shape.cmd.words)

\* ------------------------------------------------------------ claims: hostname
\* C29: hostname() always returns: each retry after ENAMETOOLONG runs with a
\* larger buffer, and a buffer beyond TooLarge bytes ends the call with the
\* error `Hostname is too large!`.
C29_HostnameTerminates ==
    <>(host.at \notin {"loop", "called"})

\* ------------------------------------------------------------ claims: trie
\* C30: iterating a TrieMap comes to an end and yields each inserted key, in
\* full, with its value, exactly once, whatever the length of the key.
C30_IterYieldsAll ==
    trie.at = "done" =>
        /\ { trie.out[i] : i \in 1 .. Len(trie.out) } = trie.root.values
        /\ Len(trie.out) = Cardinality(trie.root.values)

\* ------------------------------------------------------------ claims: builtins

\* a parser of commands has been applied to the command text of the line
OnCommandText ==
    \/ op = "WithEnv::parse_from"
    \/ op \in {"Builtin::parse_from", "Cmd::parse_from"} /\ shape.pairs = <<>>

\* the result is the builtin of the given name
IsBuiltin(r, name) == r.ok /\ r.cmd.kind = "Builtin" /\ r.cmd.name = name

\* C17: Exit is one of the builtins: a command text that is the word exit
\* parses to the builtin Exit, not to an Invoke of exit.
C17_ExitIsBuiltin ==
    ( /\ op \in {"Cmd::parse_from", "WithEnv::parse_from"}
      /\ OnCommandText
      /\ shape.cmd.words = <<S_exit>> )
        => (IsBuiltin(res, "Exit") /\ res.cmd.kind # "Invoke")

\* C18: the builtins take a fixed number of arguments: a command text that
\* begins with clear parses to Clear exactly when nothing follows it, and
\* one that begins with cd parses to Cd exactly when one path follows it.
C18_BuiltinArity ==
    (OnCommandText /\ shape.cmd.words # <<>>) =>
        /\ shape.cmd.words[1] = S_clear =>
              (IsBuiltin(res, "Clear") <=> Len(shape.cmd.words) = 1)
        /\ shape.cmd.words[1] = S_cd =>
              (IsBuiltin(res, "Cd") <=> Len(shape.cmd.words) = 2)

\* the names Builtin::parse_from matches its first word against
BuiltinNames == {S_clear, S_cd}

\* the words of s: its maximal runs of characters that are not whitespace
RECURSIVE WordsOf(_)
WordsOf(s) ==
    LET t == str_trim_start(s)
        n == IF HasWhitespace(t) THEN FindWhitespace(t) - 1 ELSE Len(t)
    IN  IF t = <<>> THEN <<>> ELSE <<Take(t, n)>> \o WordsOf(Drop(t, n))

\* C27: Builtin::parse_from has one outcome for every text: NoInput exactly
\* when the text has no word, the domain error NoPath exactly when its only
\* word is cd, Unrecognized exactly when its first word is not the name of a
\* builtin, and a builtin in every other case.
C27_BuiltinOutcomes ==
    op = "Builtin::parse_from" =>
        /\ res = ParseError("NoInput") <=> WordsOf(text) = <<>>
        /\ res = ParseError("Other(NoPath)") <=> WordsOf(text) = <<S_cd>>
        /\ res = ParseError("Unrecognized") <=>
              (WordsOf(text) # <<>> /\ WordsOf(text)[1] \notin BuiltinNames)
        /\ (res.ok /\ res.cmd.kind = "Builtin") <=>
              /\ WordsOf(text) # <<>>
              /\ WordsOf(text)[1] \in BuiltinNames
              /\ WordsOf(text) # <<S_cd>>
        /\ res.ok \/ res.err \in {"NoInput", "Other(NoPath)", "Unrecognized"}

\* a cd without a path
C27_Witness ==
    /\ op = "Builtin::parse_from"
    /\ res = ParseError("Other(NoPath)")
    /\ WordsOf(text) = <<S_cd>>

\* ------------------------------------------------------------ claims: errors

\* r is the result of the first of alts that succeeds, a failure if none does
AltOf(r, alts) ==
    IF \E i \in 1 .. Len(alts) : alts[i].ok
    THEN r = alts[CHOOSE i \in 1 .. Len(alts) :
                    alts[i].ok /\ \A j \in 1 .. i - 1 : ~alts[j].ok]
    ELSE ~r.ok

\* C19: atom and parse::token try their alternatives in order and go on to
\* the next one after any failure: the result is that of the first
\* alternative that succeeds on the window, and they fail only when every
\* alternative fails.
C19_AltRecovers ==
    /\ op = "atom" =>
          AltOf(res, <<shell_meta(text), dquote(text), squote(text), word(text)>>)
    /\ op = "parse::token" =>
          AltOf(res, <<parse_dquote(text), parse_squote(text), parse_word(text)>>)

\* C20: Cmd::parse_from and WithEnv::parse_from do not report NoInput for a
\* command text that holds non-whitespace text, such as a quote that is
\* never closed.
C20_NoInputOnlyWhenEmpty ==
    ( /\ op \in {"Cmd::parse_from", "WithEnv::parse_from"}
      /\ OnCommandText
      /\ str_trim(shape.cmd.src) # <<>> )
        => ~(~res.ok /\ res.err = "NoInput")

\* ------------------------------------------------------------ claims: word

\* C10: word fails exactly on an empty window (as Incomplete) or one that
\* begins with whitespace; otherwise the token is the longest leading run of
\* non-whitespace characters and the remainder is all the text after it, which
\* is empty when the word runs to the end of the window.
C10_WordContract ==
    op = "word" =>
        /\ res.ok <=> (text # <<>> /\ ~is_whitespace(text[1]))
        /\ text = <<>> => res.err = "Incomplete"
        /\ res.ok =>
              /\ res.tok \o res.rem = text
              /\ res.tok # <<>>
              /\ ~HasWhitespace(res.tok)
              /\ res.rem # <<>> => is_whitespace(res.rem[1])

\* a word of two characters or more that runs to the end of the window
C10_Witness ==
    /\ op = "word"
    /\ res.ok
    /\ Len(res.tok) >= 2
    /\ res.rem = <<>>

\* ------------------------------------------------------------ claims: keyval

\* the text before the first c of s, all of s if there is none
Before(s, c) ==
    IF HasChar(s, c)
    THEN Take(s, (CHOOSE i \in 1 .. Len(s) : s[i] = c /\ ~HasChar(Take(s, i - 1), c)) - 1)
    ELSE s

\* v, followed by r, is the one token at the start of s, quotes and dollar
\* sign left out
TokenAtStart(s, v, r) ==
    IF s = <<>> THEN FALSE
    ELSE IF s[1] = DQ THEN s = <<DQ>> \o v \o <<DQ>> \o r
    ELSE IF s[1] = SQ THEN s = <<SQ>> \o v \o <<SQ>> \o r /\ ~HasChar(v, SQ)
    ELSE IF s[1] = DOLLAR THEN s = <<DOLLAR>> \o v \o r
    ELSE /\ s = v \o r
         /\ v # <<>>
         /\ ~HasWhitespace(v)
         /\ r # <<>> => is_whitespace(r[1])

\* C8: keyval splits at the first equals sign. It fails when there is none and
\* when the text before it holds whitespace; when it succeeds that text is one
\* non-empty word, which is the key, the value is the token that starts right
\* after the equals sign, without its quotes, and the remainder is the text
\* after that token.
C8_KeyvalContract ==
    op = "keyval" =>
        LET key == Before(text, EQ) IN
        /\ ~HasChar(text, EQ) => ~res.ok
        /\ HasWhitespace(key) => ~res.ok
        /\ res.ok =>
              /\ key # <<>>
              /\ res.key = key
              /\ TokenAtStart(Drop(text, Len(key) + 1), res.val, res.rem)

\* a double-quoted value that holds whitespace is returned without its quotes
C8_Witness ==
    /\ op = "keyval"
    /\ res.ok
    /\ HasWhitespace(res.val)
    /\ text = res.key \o <<EQ, DQ>> \o res.val \o <<DQ>>

\* C9: the value of a key=value pair is a bare word or a quoted string, never
\* the token of a shell meta-sequence: when the text after the equals sign
\* begins with a dollar sign, keyval does not return the bracketed sequence
\* that follows the dollar sign as the value.
C9_NoMetaValue ==
    (op = "keyval" /\ res.ok) =>
        LET after == Drop(text, Len(res.key) + 1) IN
        ~ /\ after # <<>>
          /\ after[1] = DOLLAR
          /\ res.val # <<>>
          /\ res.val[1] \in {"(", "{"}
          /\ after = <<DOLLAR>> \o res.val \o res.rem

\* ------------------------------------------------------------ claims: quotes

\* C11: squote succeeds exactly when the window begins with a single quote
\* and holds a later one; then the window is the quote, the token, the quote
\* and the remainder, and the token holds no single quote (it may be empty
\* and may end in a backslash); when it fails it returns no token.
C11_SquoteContract ==
    op = "squote" =>
        /\ res.ok <=> (text # <<>> /\ text[1] = SQ /\ HasChar(Tail(text), SQ))
        /\ res.ok =>
              /\ text = <<SQ>> \o res.tok \o <<SQ>> \o res.rem
              /\ ~HasChar(res.tok, SQ)
        /\ ~res.ok => (res.tok = <<>> /\ res.rem = <<>>)

\* the body ends in a backslash and text follows the closing quote
C11_Witness ==
    /\ op = "squote"
    /\ res.ok
    /\ res.tok # <<>>
    /\ res.tok[Len(res.tok)] = BS
    /\ res.rem # <<>>

\* the body is empty
C11_WitnessEmpty ==
    /\ op = "squote"
    /\ res.ok
    /\ res.tok = <<>>

\* b is a run of plain characters and backslash pairs, without dollar signs
RECURSIVE EscBody(_)
EscBody(b) ==
    IF b = <<>> THEN TRUE
    ELSE IF b[1] = BS THEN Len(b) >= 2 /\ EscBody(Drop(b, 2))
    ELSE b[1] \notin {DQ, DOLLAR} /\ EscBody(Tail(b))

\* C12: for a window that is a double quote, a body of plain characters and
\* backslash pairs without dollar signs, a double quote and any text, dquote
\* returns the body as it is written as the token and the text after the
\* second quote as the remainder; the body may be empty.
C12_DquoteEscapes ==
    op = "dquote" =>
        \A n \in 0 .. Len(text) - 2 :
            ( /\ text[1] = DQ
              /\ text[n + 2] = DQ
              /\ EscBody(SubSeq(text, 2, n + 1)) )
                => res = Ok(Drop(text, n + 2), SubSeq(text, 2, n + 1))

\* the body holds an escaped double quote and text follows the closing quote
C12_Witness ==
    /\ op = "dquote"
    /\ res.ok
    /\ \E i \in 1 .. Len(res.tok) - 1 : res.tok[i] = BS /\ res.tok[i + 1] = DQ
    /\ res.rem # <<>>

\* no double quote of t closes a body of plain characters and backslash pairs
NoClosingQuote(t) ==
    \A n \in 0 .. Len(t) - 1 :
        t[n + 1] = DQ => (~EscBody(Take(t, n)) /\ ~HasChar(Take(t, n), DOLLAR))

\* C13: dquote fails and returns no token when the window is empty or blank,
\* when its first character is not a double quote, and when no unescaped
\* double quote follows the opening one.
C13_DquoteFails ==
    ( /\ op = "dquote"
      /\ \/ str_trim(text) = <<>>
         \/ text[1] # DQ
         \/ NoClosingQuote(Tail(text)) )
        => (~res.ok /\ res.tok = <<>> /\ res.rem = <<>>)

\* a quoted string after leading whitespace
C13_Witness ==
    /\ op = "dquote"
    /\ ~res.ok
    /\ Len(text) >= 3
    /\ is_whitespace(text[1])
    /\ text[2] = DQ
    /\ text[Len(text)] = DQ

\* an unterminated string whose last quote is escaped
C13_WitnessEscaped ==
    /\ op = "dquote"
    /\ ~res.ok
    /\ Len(text) >= 3
    /\ text[1] = DQ
    /\ text[Len(text) - 1] = BS
    /\ text[Len(text)] = DQ

\* ------------------------------------------------------------ claims: shell_meta

\* the closer of the opening bracket c
CloserOf(c) == IF c = "(" THEN ")" ELSE "}"

\* C14: when shell_meta succeeds the window is the dollar sign, the token and
\* the remainder; after an opening bracket the token begins with that bracket
\* and ends with its closer; otherwise the result is that of word on the text
\* after the dollar sign.
C14_ShellMetaShape ==
    (op = "shell_meta" /\ res.ok) =>
        /\ text = <<DOLLAR>> \o res.tok \o res.rem
        /\ res.tok # <<>>
        /\ IF res.tok[1] \in {"(", "{"}
           THEN Len(res.tok) >= 2 /\ res.tok[Len(res.tok)] = CloserOf(res.tok[1])
           ELSE /\ res = word(Tail(text))
                /\ ~HasWhitespace(res.tok)
                /\ res.rem # <<>> => is_whitespace(res.rem[1])

\* a brace sequence followed by text
C14_Witness ==
    /\ op = "shell_meta"
    /\ res.ok
    /\ Len(res.tok) >= 3
    /\ res.tok[1] = "{"
    /\ res.rem # <<>>

\* a bare word after the dollar sign
C14_WitnessBare ==
    /\ op = "shell_meta"
    /\ res.ok
    /\ res.tok = <<"a", "a">>
    /\ res.rem = <<>>

\* ------------------------------------------------------------ claims: bare words

\* c is a character without a meaning to the tokenizers but whitespace
Plain(c) == c \notin {DQ, SQ, BS, DOLLAR, "(", ")", "{", "}"}

\* c is a character of a name
NameChar(c) == Plain(c) /\ ~is_whitespace(c) /\ c # EQ

\* b is plain text that holds a dollar sign, each one followed by a name
BareWordBody(b) ==
    /\ HasChar(b, DOLLAR)
    /\ \A i \in 1 .. Len(b) :
         IF b[i] = DOLLAR THEN i < Len(b) /\ NameChar(b[i + 1]) ELSE Plain(b[i])

\* C24: dquote accepts a bare-word meta-sequence in its body: on a double
\* quote, plain text with `$name` forms, a double quote and any text
\* (`"$HOME"`, `"hi $USER" rest`) it returns the body as the token and the
\* text after the closing quote as the remainder.
C24_DquoteBareWord ==
    \A j \in 2 .. Len(text) :
        ( /\ op = "dquote"
          /\ text[1] = DQ
          /\ text[j] = DQ
          /\ BareWordBody(SubSeq(text, 2, j - 1)) )
        => res = Ok(Drop(text, j), SubSeq(text, 2, j - 1))

\* b is plain text that ends with a dollar sign and a name
BareWordEnd(b) ==
    \E k \in 1 .. Len(b) - 1 :
        /\ b[k] = DOLLAR
        /\ \A i \in 1 .. k - 1 : Plain(b[i])
        /\ \A i \in k + 1 .. Len(b) : NameChar(b[i])

\* C25: shell_meta accepts a `$name` form right before its closer: on
\* `$(echo $var)` or `${a:-$b}` followed by any text it returns the whole
\* bracketed sequence as the token and the text after the closer as the
\* remainder.
C25_MetaBareWord ==
    \A j \in 3 .. Len(text) :
        ( /\ op = "shell_meta"
          /\ text[1] = DOLLAR
          /\ text[2] \in {"(", "{"}
          /\ text[j] = CloserOf(text[2])
          /\ BareWordEnd(SubSeq(text, 3, j - 1)) )
        => res = Ok(Drop(text, j), SubSeq(text, 2, j))

\* ------------------------------------------------------------ claims: slices

\* x occurs in p as it is
IsSlice(x, p) == \E i \in 0 .. Len(p) - Len(x) : SubSeq(p, i + 1, i + Len(x)) = x

\* C15: when a tokenizer succeeds its remainder is the end of the window and
\* its token is a piece of the text before the remainder, as it is written;
\* for keyval the key is the start of that text and the value a piece of what
\* follows the key and the equals sign.
C15_Slices ==
    (op # "none" /\ res.ok) =>
        /\ IsSuffix(res.rem, text)
        /\ LET used == Take(text, Len(text) - Len(res.rem)) IN
           IF op = "keyval"
           THEN /\ IsPrefix(res.key, used)
                /\ IsSlice(res.val, Drop(used, Len(res.key) + 1))
           ELSE IsSlice(res.tok, used)

\* atom returns a double-quoted token that holds a backslash pair
C15_Witness ==
    /\ op = "atom"
    /\ res.ok
    /\ text[1] = DQ
    /\ \E i \in 1 .. Len(res.tok) - 1 : res.tok[i] = BS
    /\ res.rem # <<>>

\* ------------------------------------------------------------ claims: brackets

\* the number of unclosed "(" after the first n characters of s
RECURSIVE ParenDepth(_, _)
ParenDepth(s, n) ==
    IF n = 0 THEN 0
    ELSE ParenDepth(s, n - 1)
            + (IF s[n] = "(" THEN 1 ELSE 0)
            - (IF s[n] = ")" /\ ParenDepth(s, n - 1) > 0 THEN 1 ELSE 0)

\* s is "(", then text of letters and balanced parentheses, then the ")" that
\* balances the first character
BalancedParens(s) ==
    /\ Len(s) >= 2
    /\ s[1] = "("
    /\ \A i \in 1 .. Len(s) : s[i] \in {"(", ")", "a"}
    /\ \A i \in 1 .. Len(s) - 1 : ParenDepth(s, i) > 0
    /\ s[Len(s)] = ")"
    /\ ParenDepth(s, Len(s) - 1) = 1

\* C3: the subshell form is balanced on its parentheses: for a dollar sign
\* followed by a balanced run of plain parentheses, the token is the whole
\* run and the remainder is empty.
C3_BalancedBrackets ==
    (op = "shell_meta" /\ text # <<>> /\ text[1] = DOLLAR /\ BalancedParens(Tail(text)))
        => res = Ok(<<>>, Tail(text))

====
